---- MODULE Spec2Model ----
(***************************************************************************)
(* Model of the stacked-pull-request resolver of src/main.rs:              *)
(* StackVisualizer::build_stack_graph and the helpers it calls.            *)
(*                                                                         *)
(* A request body is modelled as the sequence of the pieces of text the    *)
(* two regular-expression scanners of the program react to, in the order   *)
(* in which they occur in the text:                                        *)
(*   "stack"  a line  Stack:                                               *)
(*   "item"   a list line  - #N ...                                        *)
(*   "dep"    a dependency phrase  <form> #N                               *)
(*   "text"   any other line                                               *)
(* A piece carries the digit run N and whether that run fits a u32         *)
(* (str::parse::<u32> fails when it does not).                             *)
(*                                                                         *)
(* Branch names are numbers: Main is the branch "main", k > 0 is the       *)
(* branch that request k has as its head unless said otherwise.  The       *)
(* request source (the gh subprocess) is the four variables prs,           *)
(* fetchable, open_ok, open_list: they are chosen in Init and never        *)
(* change, so a failure is permanent for one run.  The run starts from     *)
(* request 1; the listing is answered in ascending or descending order,    *)
(* so the start request is met first or last.                              *)
(***************************************************************************)
EXTENDS Integers, Sequences, FiniteSets, TLC

VARIABLES
    prs,        \* the repository: number -> [body, base_ref, head_ref]
    fetchable,  \* numbers for which `gh pr view` succeeds
    open_ok,    \* whether `gh pr list` succeeds
    open_list,  \* what `gh pr list` answers
    start_pr,   \* the number given on the command line
    cache,      \* StackVisualizer.cache (its keys; the values are prs[n])
    pc,         \* position in build_stack_graph
    all_prs,    \* local all_prs
    stack,      \* local stack (numbers of the collected requests)
    visited,    \* local visited
    pending,    \* what is left of the for loop being run (lines 129, 143)
    frames,     \* activation records of traverse_branches / traverse_deps
    call,       \* <<n>>: a call traverse_*(n) about to be entered; <<>>: none
    strategy,   \* which part of build_stack_graph produced the result
    result,     \* what build_stack_graph returned
    body,       \* argument of a direct call of extract_dependencies
    deps        \* its answer

vars == <<prs, fetchable, open_ok, open_list, start_pr, cache, pc, all_prs,
          stack, visited, pending, frames, call, strategy, result, body, deps>>

world == <<prs, fetchable, open_ok, open_list, start_pr>>

-----------------------------------------------------------------------------
(* Bounds of the model *)

NumPRs == 3
MaxDeclared == 3
MaxPhrases == 2
MaxStacked == 2
MaxClosed == 1
MaxBodyLen == 3

(* Program constants *)

Main == 0

-----------------------------------------------------------------------------
(* Sequences *)

Range(s) == {s[i] : i \in 1..Len(s)}

Contains(s, x) == \E i \in 1..Len(s) : s[i] = x

NoDup(s) == \A i, j \in 1..Len(s) : s[i] = s[j] => i = j

RECURSIVE Concat(_)
Concat(ss) == IF ss = <<>> THEN <<>> ELSE Head(ss) \o Concat(Tail(ss))

-----------------------------------------------------------------------------
(* Request bodies *)

Patterns == <<"depends", "based", "stacked", "builds", "requires", "follows">>

Hdr == [k |-> "stack", form |-> "", n |-> 0, fits |-> TRUE]
Text == [k |-> "text", form |-> "", n |-> 0, fits |-> TRUE]
Item(n) == [k |-> "item", form |-> "", n |-> n, fits |-> TRUE]
Dep(f, n) == [k |-> "dep", form |-> f, n |-> n, fits |-> TRUE]

\* cap[1].parse(): the numbers of the captures whose digit run fits a u32
RECURSIVE ParseAll(_)
ParseAll(caps) ==
    IF caps = <<>> THEN <<>>
    ELSE (IF Head(caps).fits THEN <<Head(caps).n>> ELSE <<>>) \o ParseAll(Tail(caps))

\* re.captures_iter(body) for one pattern: its matches from left to right
captures_iter(b, f) == SelectSeq(b, LAMBDA t : t.k = "dep" /\ t.form = f)

\* a scan that takes the phrases of every form in one pass over the text
extract_in_text_order(b) == ParseAll(SelectSeq(b, LAMBDA t : t.k = "dep"))

\* the outer loop runs over the patterns, the inner one over one pattern's matches
extract_dependencies(b) ==
    Concat([i \in 1..Len(Patterns) |-> ParseAll(captures_iter(b, Patterns[i]))])

\* the list lines that directly follow position i
RECURSIVE ListLines(_, _)
ListLines(b, i) ==
    IF i <= Len(b) /\ b[i].k = "item" THEN <<b[i]>> \o ListLines(b, i + 1) ELSE <<>>

\* Option<Vec<u32>>: None is <<>> (Some always holds more than one number).
\* The regex matches at the leftmost "stack:" line, whatever follows it.
extract_stack_info(b) ==
    IF \E i \in 1..Len(b) : b[i].k = "stack"
    THEN LET i == CHOOSE j \in 1..Len(b) :
                      b[j].k = "stack" /\ \A m \in 1..(j - 1) : b[m].k # "stack"
             stack_prs == ParseAll(ListLines(b, i + 1))
         IN IF Len(stack_prs) > 1 THEN stack_prs ELSE <<>>
    ELSE <<>>

-----------------------------------------------------------------------------
(* The cache and the request source *)

\* fetch_pr(number) is Ok: a cache hit, or `gh pr view` succeeds
fetch_ok(c, n) == n \in c \/ n \in fetchable

\* the cache after fetch_pr(n)
fetch_pr(c, n) == IF fetch_ok(c, n) THEN c \cup {n} ELSE c

\* a collection that ends up in the reverse of the declared order
fetch_each_reversed(c, nums) ==
    LET got == SelectSeq(nums, LAMBDA n : n \in c \/ n \in fetchable)
    IN [i \in 1..Len(got) |-> got[Len(got) + 1 - i]]

\* nums.iter().filter_map(|n| fetch_pr(n).ok()): the requests obtained, in order
fetch_each(c, nums) == SelectSeq(nums, LAMBDA n : fetch_ok(c, n))

\* the cache after fetching every number of nums
fetch_all(c, nums) == c \cup {n \in Range(nums) : fetch_ok(c, n)}

\* the branch relation of find_related_by_branch's second filter
branch_related(pr, target) ==
    \/ prs[pr].base_ref = prs[target].head_ref
    \/ prs[target].base_ref = prs[pr].head_ref

find_related_by_branch(c, target, all) ==
    SelectSeq(all, LAMBDA num : /\ num # target
                                /\ fetch_ok(c, num)
                                /\ branch_related(num, target))

\* the candidates find_related_by_branch fetches
candidates(target, all) == SelectSeq(all, LAMBDA num : num # target)

\* a traversal that does not look at the visited set
visited_insert_ignored(vis, n) == TRUE

\* visited.insert(n) answers true when n was not in the set
visited_insert(vis, n) == n \notin vis

\* lines 130-136: the related requests not seen before are pushed, in order
RECURSIVE push_new(_, _, _, _)
push_new(related, stk, vis, c) ==
    IF related = <<>> THEN [stack |-> stk, visited |-> vis]
    ELSE LET r == Head(related) IN
         IF visited_insert(vis, r)
         THEN push_new(Tail(related),
                       IF fetch_ok(c, r) THEN Append(stk, r) ELSE stk,
                       vis \cup {r}, c)
         ELSE push_new(Tail(related), stk, vis, c)

-----------------------------------------------------------------------------
(* Vec::sort_by_key: a stable sort, here by insertion from the left *)

\* an unstable sort: equal keys end up in the reverse of their first order
RECURSIVE insert_before_equal(_, _, _)
insert_before_equal(sorted, x, key) ==
    IF sorted = <<>> THEN <<x>>
    ELSE IF key[Head(sorted)] < key[x]
         THEN <<Head(sorted)>> \o insert_before_equal(Tail(sorted), x, key)
         ELSE <<x>> \o sorted

RECURSIVE insert_by_key(_, _, _)
insert_by_key(sorted, x, key) ==
    IF sorted = <<>> THEN <<x>>
    ELSE IF key[Head(sorted)] <= key[x]
         THEN <<Head(sorted)>> \o insert_by_key(Tail(sorted), x, key)
         ELSE <<x>> \o sorted

RECURSIVE sort_from(_, _, _)
sort_from(s, acc, key) ==
    IF s = <<>> THEN acc
    ELSE sort_from(Tail(s), insert_by_key(acc, Head(s), key), key)

sort_by_key(s, key) == sort_from(s, <<>>, key)

\* line 161: the key of the branch-chaining result
main_first_key == [n \in DOMAIN prs |-> IF prs[n].base_ref = Main THEN 0 ELSE 1]

\* line 168: the key of the dependency-phrase result
dep_count_key == [n \in DOMAIN prs |-> Len(extract_dependencies(prs[n].body))]

-----------------------------------------------------------------------------
(* build_stack_graph *)

Ok(s) == [kind |-> "ok", stack |-> s]
Err == [kind |-> "err", stack |-> <<>>]
NoResult == [kind |-> "none", stack |-> <<>>]

\* line 120
FetchStart ==
    /\ pc = "start"
    /\ IF fetch_ok(cache, start_pr)
       THEN /\ cache' = fetch_pr(cache, start_pr)
            /\ pc' = "parse"
            /\ UNCHANGED <<result, strategy>>
       ELSE /\ result' = Err
            /\ strategy' = "error"
            /\ pc' = "done"
            /\ UNCHANGED cache
    /\ UNCHANGED <<world, all_prs, stack, visited, pending, frames, call, body, deps>>

\* lines 122-125 (a declared section) and the fall through to line 142
ParseStart ==
    /\ pc = "parse"
    /\ LET stack_prs == extract_stack_info(prs[start_pr].body) IN
       IF stack_prs # <<>>
       THEN /\ stack' = fetch_each(cache, stack_prs)
            /\ cache' = fetch_all(cache, stack_prs)
            /\ strategy' = "explicit"
            /\ pc' = "explicit_list"
       ELSE /\ pc' = "list"
            /\ UNCHANGED <<stack, cache, strategy>>
    /\ UNCHANGED <<world, all_prs, visited, pending, frames, call, result, body, deps>>

\* lines 127-129, and line 139 when the listing fails
ExplicitList ==
    /\ pc = "explicit_list"
    /\ IF open_ok
       THEN /\ all_prs' = open_list
            /\ visited' = Range(stack)
            /\ pending' = stack
            /\ pc' = "expand"
            /\ UNCHANGED result
       ELSE /\ result' = Ok(stack)
            /\ pc' = "done"
            /\ UNCHANGED <<all_prs, visited, pending>>
    /\ UNCHANGED <<world, cache, stack, frames, call, strategy, body, deps>>

\* lines 129-137: one round of the loop over stack.clone()
ExpandMember ==
    /\ pc = "expand"
    /\ pending # <<>>
    /\ LET pr == Head(pending)
           c == fetch_all(cache, candidates(pr, all_prs))
           related == find_related_by_branch(cache, pr, all_prs)
           after == push_new(related, stack, visited, c)
       IN /\ cache' = c
          /\ stack' = after.stack
          /\ visited' = after.visited
    /\ pending' = Tail(pending)
    /\ UNCHANGED <<world, pc, all_prs, frames, call, strategy, result, body, deps>>

\* line 139
ExplicitReturn ==
    /\ pc = "expand"
    /\ pending = <<>>
    /\ result' = Ok(stack)
    /\ pc' = "done"
    /\ UNCHANGED <<world, cache, all_prs, stack, visited, pending, frames, call,
                   strategy, body, deps>>

\* line 142
ListOpen ==
    /\ pc = "list"
    /\ IF open_ok
       THEN /\ all_prs' = open_list
            /\ pending' = open_list
            /\ pc' = "reverse"
            /\ UNCHANGED <<result, strategy>>
       ELSE /\ result' = Err
            /\ strategy' = "error"
            /\ pc' = "done"
            /\ UNCHANGED <<all_prs, pending>>
    /\ UNCHANGED <<world, cache, stack, visited, frames, call, body, deps>>

\* lines 143-154: one round of the loop over all_prs
ReverseScan ==
    /\ pc = "reverse"
    /\ pending # <<>>
    /\ LET num == Head(pending)
           stack_prs == extract_stack_info(prs[num].body)
       IN IF num # start_pr /\ fetch_ok(cache, num) /\ Contains(stack_prs, start_pr)
          THEN /\ result' = Ok(fetch_each(fetch_pr(cache, num), stack_prs))
               /\ cache' = fetch_all(fetch_pr(cache, num), stack_prs)
               /\ strategy' = "reverse"
               /\ pc' = "done"
               /\ UNCHANGED pending
          ELSE /\ cache' = IF num # start_pr THEN fetch_pr(cache, num) ELSE cache
               /\ pending' = Tail(pending)
               /\ UNCHANGED <<result, strategy, pc>>
    /\ UNCHANGED <<world, all_prs, stack, visited, frames, call, body, deps>>

\* lines 156-158: the call traverse_branches(start_pr)
ReverseDone ==
    /\ pc = "reverse"
    /\ pending = <<>>
    /\ visited' = {}
    /\ stack' = <<>>
    /\ frames' = <<>>
    /\ call' = <<start_pr>>
    /\ pc' = "branches"
    /\ UNCHANGED <<world, cache, all_prs, pending, strategy, result, body, deps>>

-----------------------------------------------------------------------------
(* traverse_branches and traverse_deps.  A frame is one activation that has *)
(* passed its push: todo is what is left of its first for loop (related,    *)
(* deps), others what is left of traverse_deps' loop over all_prs.          *)

Frame(n, todo, others) == [num |-> n, todo |-> todo, others |-> others]

Top == frames[Len(frames)]

Pop == SubSeq(frames, 1, Len(frames) - 1)

ReplaceTop(f) == [frames EXCEPT ![Len(frames)] = f]

\* where build_stack_graph continues when its call of a traversal returns Ok
after_traversal == IF pc = "branches" THEN "branch_result" ELSE "deps_result"

\* lines 173-176
BranchEnter ==
    /\ pc = "branches"
    /\ call # <<>>
    /\ LET num == call[1] IN
       IF ~visited_insert(visited, num)
       THEN /\ pc' = IF frames = <<>> THEN after_traversal ELSE pc
            /\ UNCHANGED <<visited, cache, stack, frames, result, strategy>>
       ELSE /\ visited' = visited \cup {num}
            /\ IF fetch_ok(cache, num)
               THEN /\ cache' = fetch_all(fetch_pr(cache, num), candidates(num, all_prs))
                    /\ stack' = Append(stack, num)
                    /\ frames' = Append(frames,
                          Frame(num,
                                find_related_by_branch(fetch_pr(cache, num), num, all_prs),
                                <<>>))
                    /\ UNCHANGED <<pc, result, strategy>>
               ELSE /\ result' = Err
                    /\ strategy' = "error"
                    /\ pc' = "done"
                    /\ frames' = <<>>
                    /\ UNCHANGED <<cache, stack>>
    /\ call' = <<>>
    /\ UNCHANGED <<world, all_prs, pending, body, deps>>

\* lines 177-179: the next recursive call
BranchLoop ==
    /\ pc = "branches"
    /\ call = <<>>
    /\ frames # <<>>
    /\ Top.todo # <<>>
    /\ call' = <<Head(Top.todo)>>
    /\ frames' = ReplaceTop(Frame(Top.num, Tail(Top.todo), Top.others))
    /\ UNCHANGED <<world, cache, pc, all_prs, stack, visited, pending, strategy,
                   result, body, deps>>

\* line 180
BranchReturn ==
    /\ pc = "branches"
    /\ call = <<>>
    /\ frames # <<>>
    /\ Top.todo = <<>>
    /\ frames' = Pop
    /\ pc' = IF Pop = <<>> THEN after_traversal ELSE pc
    /\ UNCHANGED <<world, cache, all_prs, stack, visited, pending, call, strategy,
                   result, body, deps>>

\* lines 160-167: the sorted result, or the call traverse_deps(start_pr)
BranchResult ==
    /\ pc = "branch_result"
    /\ IF Len(stack) > 1
       THEN /\ result' = Ok(sort_by_key(stack, main_first_key))
            /\ strategy' = "branch"
            /\ pc' = "done"
            /\ UNCHANGED <<visited, stack, call>>
       ELSE /\ visited' = {}
            /\ stack' = <<>>
            /\ call' = <<start_pr>>
            /\ pc' = "deps"
            /\ UNCHANGED <<result, strategy>>
    /\ UNCHANGED <<world, cache, all_prs, pending, frames, body, deps>>

\* lines 184-187
DepsEnter ==
    /\ pc = "deps"
    /\ call # <<>>
    /\ LET num == call[1] IN
       IF ~visited_insert(visited, num)
       THEN /\ pc' = IF frames = <<>> THEN after_traversal ELSE pc
            /\ UNCHANGED <<visited, cache, stack, frames, result, strategy>>
       ELSE /\ visited' = visited \cup {num}
            /\ IF fetch_ok(cache, num)
               THEN /\ cache' = fetch_pr(cache, num)
                    /\ stack' = Append(stack, num)
                    /\ frames' = Append(frames,
                          Frame(num, extract_dependencies(prs[num].body), all_prs))
                    /\ UNCHANGED <<pc, result, strategy>>
               ELSE /\ result' = Err
                    /\ strategy' = "error"
                    /\ pc' = "done"
                    /\ frames' = <<>>
                    /\ UNCHANGED <<cache, stack>>
    /\ call' = <<>>
    /\ UNCHANGED <<world, all_prs, pending, body, deps>>

\* lines 188-190: the next request this one refers to
DepsLoopDep ==
    /\ pc = "deps"
    /\ call = <<>>
    /\ frames # <<>>
    /\ Top.todo # <<>>
    /\ call' = <<Head(Top.todo)>>
    /\ frames' = ReplaceTop(Frame(Top.num, Tail(Top.todo), Top.others))
    /\ UNCHANGED <<world, cache, pc, all_prs, stack, visited, pending, strategy,
                   result, body, deps>>

\* lines 191-199: the next open request, entered when it refers to this one
DepsLoopOther ==
    /\ pc = "deps"
    /\ call = <<>>
    /\ frames # <<>>
    /\ Top.todo = <<>>
    /\ Top.others # <<>>
    /\ LET other == Head(Top.others) IN
       /\ cache' = IF other # Top.num THEN fetch_pr(cache, other) ELSE cache
       /\ call' = IF /\ other # Top.num
                     /\ fetch_ok(cache, other)
                     /\ Contains(extract_dependencies(prs[other].body), Top.num)
                  THEN <<other>> ELSE <<>>
    /\ frames' = ReplaceTop(Frame(Top.num, Top.todo, Tail(Top.others)))
    /\ UNCHANGED <<world, pc, all_prs, stack, visited, pending, strategy, result,
                   body, deps>>

\* line 200
DepsReturn ==
    /\ pc = "deps"
    /\ call = <<>>
    /\ frames # <<>>
    /\ Top.todo = <<>>
    /\ Top.others = <<>>
    /\ frames' = Pop
    /\ pc' = IF Pop = <<>> THEN after_traversal ELSE pc
    /\ UNCHANGED <<world, cache, all_prs, stack, visited, pending, call, strategy,
                   result, body, deps>>

\* lines 168-169
DepsResult ==
    /\ pc = "deps_result"
    /\ result' = Ok(sort_by_key(stack, dep_count_key))
    /\ strategy' = "deps"
    /\ pc' = "done"
    /\ UNCHANGED <<world, cache, all_prs, stack, visited, pending, frames, call,
                   body, deps>>

Next ==
    \/ FetchStart
    \/ ParseStart
    \/ ExplicitList
    \/ ExpandMember
    \/ ExplicitReturn
    \/ ListOpen
    \/ ReverseScan
    \/ ReverseDone
    \/ BranchEnter
    \/ BranchLoop
    \/ BranchReturn
    \/ BranchResult
    \/ DepsEnter
    \/ DepsLoopDep
    \/ DepsLoopOther
    \/ DepsReturn
    \/ DepsResult

-----------------------------------------------------------------------------
(* The repositories and request sources a run starts from *)

Ids == 1..NumPRs

RECURSIVE Ascending(_)
Ascending(S) ==
    IF S = {} THEN <<>>
    ELSE LET m == CHOOSE x \in S : \A y \in S : x <= y
         IN <<m>> \o Ascending(S \ {m})

RECURSIVE Reverse(_)
Reverse(s) == IF s = <<>> THEN <<>> ELSE Reverse(Tail(s)) \o <<Head(s)>>

SeqsUpTo(S, lo, hi) == UNION {[1..k -> S] : k \in lo..hi}

\* the body "Stack:" followed by one list line per number of l
SectionBody(l) == <<Hdr>> \o [i \in 1..Len(l) |-> Item(l[i])]

\* the body holding one phrase "depends on #t" per number of targets
PhraseBody(targets) == [i \in 1..Len(targets) |-> Dep("depends", targets[i])]

NoBodies == [n \in Ids |-> <<>>]

AllMain == [n \in Ids |-> Main]

\* a request never has its own head branch as its base
BaseMaps == {b \in [Ids -> 0..NumPRs] : \A n \in Ids : b[n] # n}

\* at most MaxStacked requests are based on another request's branch
ChainBaseMaps ==
    {b \in BaseMaps : Cardinality({n \in Ids : b[n] # Main}) <= MaxStacked}

\* every request has its own head branch
OwnHeads == [n \in Ids |-> n]

\* base and head of every request, where up to MaxStacked requests are not
\* "main <- own branch": two requests may share a head, a head may be "main"
BranchMaps ==
    {m \in [Ids -> (0..NumPRs) \X (0..NumPRs)] :
        /\ \A n \in Ids : m[n][1] # m[n][2]
        /\ Cardinality({n \in Ids : m[n] # <<Main, n>>}) <= MaxStacked}

\* request 1 can be fetched, any other one may fail
FetchSets == {{1} \cup F : F \in SUBSET (Ids \ {1})}

\* all requests but up to MaxClosed are open
OpenSets == {Ids \ M : M \in {X \in SUBSET Ids : Cardinality(X) <= MaxClosed}}

Listings(S) == {Ascending(S), Reverse(Ascending(S))}

\* the request source of one run
Source(bodies, bases, heads, f, ok, l) ==
    /\ prs = [n \in Ids |->
                 [body |-> bodies[n], base_ref |-> bases[n], head_ref |-> heads[n]]]
    /\ fetchable = f
    /\ open_ok = ok
    /\ open_list = l

World(bodies, bases, f, ok, l) == Source(bodies, bases, OwnHeads, f, ok, l)

Pairs == [1..2 -> Ids]

\* the declared lists: every pair, a number listed twice included, and the
\* longer lists that name no number twice
DeclaredLists == Pairs \cup {l \in SeqsUpTo(Ids, 3, MaxDeclared) : NoDup(l)}

\* request 1 declares a stack section
ExplicitWorlds ==
    \E l \in DeclaredLists, b \in ChainBaseMaps, f \in FetchSets,
       ok \in BOOLEAN, o \in Listings(Ids) :
        World([NoBodies EXCEPT ![1] = SectionBody(l)], b, f, ok, o)

\* another request declares a stack section
ReverseWorlds ==
    \E w \in Ids \ {1}, l \in DeclaredLists, f \in FetchSets,
       o \in OpenSets :
        World([NoBodies EXCEPT ![w] = SectionBody(l)], AllMain, f, TRUE, Ascending(o))

\* no markup in any body: the branch names decide
BranchWorlds ==
    \E b \in BaseMaps, f \in FetchSets, ok \in BOOLEAN,
       o \in UNION {Listings(S) : S \in OpenSets} :
        World(NoBodies, b, f, ok, o)

\* no markup either, heads that need not be the request's own branch
SharedHeadWorlds ==
    \E m \in BranchMaps, o \in Listings(Ids) :
        Source(NoBodies, [n \in Ids |-> m[n][1]], [n \in Ids |-> m[n][2]], Ids, TRUE, o)

\* at most MaxPhrases dependency phrases in the repository, every base "main"
PhraseSets == {P \in SUBSET (Ids \X Ids) : Cardinality(P) <= MaxPhrases}

PhraseBodies(P) ==
    [n \in Ids |-> PhraseBody(Ascending({t \in Ids : <<n, t>> \in P}))]

DepsWorlds ==
    \E P \in PhraseSets, f \in FetchSets, o \in OpenSets :
        World(PhraseBodies(P), AllMain, f, TRUE, Ascending(o))

\* one declared pair, one dependency phrase and one stacked branch at most,
\* anywhere in the repository
MixedWorlds ==
    \E w \in Ids, l \in Pairs \cup {<<>>},
       P \in {{}} \cup {{p} : p \in Ids \X Ids},
       b \in {c \in BaseMaps : \E n \in Ids : \A m \in Ids \ {n} : c[m] = Main} :
        World([n \in Ids |->
                  (IF n = w /\ l # <<>> THEN SectionBody(l) ELSE <<>>) \o PhraseBodies(P)[n]],
              b, Ids, TRUE, Ascending(Ids))

\* the start request itself cannot be fetched
NoStartWorlds == World(NoBodies, AllMain, Ids \ {1}, TRUE, Ascending(Ids))

\* the locals of build_stack_graph before its first line, and an empty cache
InitLocals ==
    /\ start_pr = 1
    /\ cache = {}
    /\ pc = "start"
    /\ all_prs = <<>>
    /\ stack = <<>>
    /\ visited = {}
    /\ pending = <<>>
    /\ frames = <<>>
    /\ call = <<>>
    /\ strategy = "none"
    /\ result = NoResult
    /\ body = <<>>
    /\ deps = <<>>

Init ==
    /\ \/ ExplicitWorlds
       \/ ReverseWorlds
       \/ BranchWorlds
       \/ SharedHeadWorlds
       \/ DepsWorlds
       \/ MixedWorlds
       \/ NoStartWorlds
    /\ InitLocals

Spec == Init /\ [][Next]_vars

\* The repositories the traversals are followed to their end on: any branch
\* relation (own heads, or shared ones), any set of at most MaxPhrases dependency
\* phrases with any request but the first one failing, and a declared pair over
\* any branch relation.
TraversalWorlds ==
    \/ \E b \in BaseMaps, o \in Listings(Ids) : World(NoBodies, b, Ids, TRUE, o)
    \/ SharedHeadWorlds
    \/ \E P \in PhraseSets, f \in FetchSets :
          World(PhraseBodies(P), AllMain, f, TRUE, Ascending(Ids))
    \/ \E b \in BaseMaps :
          World([NoBodies EXCEPT ![1] = SectionBody(<<1, 2>>)], b, Ids, TRUE,
                Ascending(Ids))

InitTraversal == TraversalWorlds /\ InitLocals

\* The program is one thread that runs to its end: a step that can be taken is
\* taken.
FairSpec == InitTraversal /\ [][Next]_vars /\ WF_vars(Next)

-----------------------------------------------------------------------------
(* extract_dependencies called on its own, on every body of up to MaxBodyLen *)
(* pieces                                                                    *)

\* a phrase whose digit run does not fit a u32
BigDep(f) == [k |-> "dep", form |-> f, n |-> 0, fits |-> FALSE]

BodyPieces ==
    {Dep(Patterns[i], n) : i \in 1..Len(Patterns), n \in {3, 7}}
        \cup {BigDep(Patterns[i]) : i \in 1..Len(Patterns)}
        \cup {Hdr, Text, Item(3)}

InitExtract ==
    /\ body \in SeqsUpTo(BodyPieces, 0, MaxBodyLen)
    /\ deps = <<>>
    /\ pc = "extract"
    /\ World(NoBodies, AllMain, {}, FALSE, <<>>)
    /\ start_pr = 1
    /\ cache = {}
    /\ all_prs = <<>>
    /\ stack = <<>>
    /\ visited = {}
    /\ pending = <<>>
    /\ frames = <<>>
    /\ call = <<>>
    /\ strategy = "none"
    /\ result = NoResult

\* lines 70-90
ExtractDependencies ==
    /\ pc = "extract"
    /\ deps' = extract_dependencies(body)
    /\ pc' = "extracted"
    /\ UNCHANGED <<world, cache, all_prs, stack, visited, pending, frames, call,
                   strategy, result, body>>

NextExtract == ExtractDependencies

SpecExtract == InitExtract /\ [][NextExtract]_vars

-----------------------------------------------------------------------------
(* What the claims speak of *)

Done == pc = "done"

Returned == Done /\ result.kind = "ok"

IsMain(n) == prs[n].base_ref = Main

\* the list the start request declares, and its members that can be fetched
Declared == extract_stack_info(prs[start_pr].body)

DeclaredFetched == SelectSeq(Declared, LAMBDA n : n \in fetchable)

\* the open requests that can be fetched
OpenFetchable == {n \in Range(open_list) : n \in fetchable}

\* n is another request that can be fetched and that one of the four
\* strategies relates to the start request
RelatedToStart(n) ==
    /\ n # start_pr
    /\ n \in fetchable
    /\ \/ Contains(Declared, n)
       \/ n \in Range(open_list) /\ Contains(extract_stack_info(prs[n].body), start_pr)
       \/ \E m \in OpenFetchable :
             /\ Contains(extract_stack_info(prs[m].body), start_pr)
             /\ Contains(extract_stack_info(prs[m].body), n)
       \/ n \in Range(open_list) /\ branch_related(n, start_pr)
       \/ Contains(extract_dependencies(prs[start_pr].body), n)
       \/ n \in Range(open_list) /\ Contains(extract_dependencies(prs[n].body), start_pr)

-----------------------------------------------------------------------------
(* The claims *)

\* C1: when the start request can be fetched (and the open listing succeeds),
\* resolve never returns an error: a failing fetch of any other number only
\* leaves that number out.
C1_OnlyStartFetchIsFatal ==
    (Done /\ start_pr \in fetchable /\ open_ok) => result.kind = "ok"

\* C2: a failing open listing never aborts resolve: it returns a stack, with or
\* without a declared section in the start request, and with a section the stack
\* is the one an empty candidate set gives.
C2_ListingFailureIsNotFatal ==
    (Done /\ start_pr \in fetchable /\ ~open_ok) =>
        /\ result.kind = "ok"
        /\ Declared # <<>> => result.stack = DeclaredFetched

\* C3: the returned stack never holds the same number twice.
C3_NoDuplicateInResult == Returned => NoDup(result.stack)

\* C4: with the start request and the listing available and no other request both
\* fetchable and related to the start, the result is exactly the start request.
C4_UnstackedIsStartAlone ==
    (/\ Done
     /\ start_pr \in fetchable
     /\ open_ok
     /\ \A n \in Ids : ~RelatedToStart(n))
        => result = Ok(<<start_pr>>)

\* While a traversal runs and when it has returned, the numbers it has entered
\* (visited) are the numbers on the collected stack, each once; a traversal that
\* a failed fetch aborts has entered that one number more.
C5_EachReachedOnce ==
    /\ (\/ pc \in {"branches", "branch_result", "deps", "deps_result"}
        \/ Done /\ strategy \in {"branch", "deps"})
           => NoDup(stack) /\ Range(stack) = visited
    /\ (Done /\ strategy = "error")
           => /\ NoDup(stack)
              /\ Range(stack) \subseteq visited
              /\ (visited \ Range(stack)) \cap fetchable = {}

\* C5: the branch-chaining traversal and the dependency-phrase traversal both
\* terminate, whatever cycles and self-references the requests hold, and every
\* number they reach is on the collected stack exactly once.
C5_CycleSafety == [](C5_EachReachedOnce) /\ <>Done

C5_CycleWitness ==
    /\ Done
    /\ strategy = "deps"
    /\ Contains(extract_dependencies(prs[1].body), 2)
    /\ Contains(extract_dependencies(prs[2].body), 1)
    /\ Range(result.stack) = {1, 2}
    /\ Len(result.stack) = 2

\* C6: the branch-chaining result has every request based on "main" before every
\* other one, and inside each group the order of discovery.
C6_MainFirstStable ==
    (Done /\ strategy = "branch") =>
        LET r == result.stack IN
        /\ Len(r) > 1
        /\ \A i, j \in 1..Len(r) : i < j => ~(~IsMain(r[i]) /\ IsMain(r[j]))
        /\ SelectSeq(r, IsMain) = SelectSeq(stack, IsMain)
        /\ SelectSeq(r, LAMBDA n : ~IsMain(n)) = SelectSeq(stack, LAMBDA n : ~IsMain(n))

C6_ReorderedWitness ==
    /\ Done
    /\ strategy = "branch"
    /\ result.stack # stack
    /\ Cardinality({n \in Range(result.stack) : ~IsMain(n)}) >= 2

\* where e is first seen by the expansion: at which declared member, and where
\* in the open listing
SeenAt(e) ==
    CHOOSE i \in 1..Len(DeclaredFetched) :
        /\ e # DeclaredFetched[i] /\ branch_related(e, DeclaredFetched[i])
        /\ \A m \in 1..(i - 1) :
              ~(e # DeclaredFetched[m] /\ branch_related(e, DeclaredFetched[m]))

ListedAt(e) == CHOOSE j \in 1..Len(open_list) : open_list[j] = e

\* C7: the explicit declaration result begins with the declared numbers whose
\* fetch succeeds, in declared order; what follows are branch-discovered requests
\* in first-seen order.  Declared 1, 2, 3, all fetched, nothing branch-related:
\* the result is 1, 2, 3.
C7_DeclaredOrderThenExtras ==
    (Done /\ strategy = "explicit") =>
        LET r == result.stack
            d == Len(DeclaredFetched)
        IN /\ result.kind = "ok"
           /\ Len(r) >= d
           /\ SubSeq(r, 1, d) = DeclaredFetched
           /\ \A k \in (d + 1)..Len(r) :
                 /\ open_ok
                 /\ r[k] \in OpenFetchable \ Range(DeclaredFetched)
                 /\ \E i \in 1..d :
                       r[k] # DeclaredFetched[i] /\ branch_related(r[k], DeclaredFetched[i])
           /\ \A k1, k2 \in (d + 1)..Len(r) :
                 k1 < k2 =>
                    \/ SeenAt(r[k1]) < SeenAt(r[k2])
                    \/ SeenAt(r[k1]) = SeenAt(r[k2]) /\ ListedAt(r[k1]) < ListedAt(r[k2])
           /\ (/\ Declared = <<1, 2, 3>>
               /\ fetchable = Ids
               /\ \A n \in Ids : IsMain(n))
                  => r = <<1, 2, 3>>

C7_SkippedAndExtraWitness ==
    /\ Done
    /\ strategy = "explicit"
    /\ Len(DeclaredFetched) < Len(Declared)
    /\ Len(result.stack) > Len(DeclaredFetched)

\* C8: the first strategy whose result has more than one element wins; a strategy
\* with fewer than two elements does not win and the next one is applied.
C8_FirstMultiElementWins ==
    Returned =>
        /\ strategy \in {"explicit", "reverse", "branch"} => Len(result.stack) > 1
        /\ Len(DeclaredFetched) > 1 => strategy = "explicit"

\* C9: the explicit declaration result is closed under the branch relation: every
\* open, fetchable request related by branch to a member is a member.
C9_ExplicitResultClosed ==
    (Returned /\ strategy = "explicit" /\ open_ok) =>
        \A m \in Range(result.stack) : \A r \in OpenFetchable :
            (r # m /\ branch_related(r, m)) => r \in Range(result.stack)

PatternIndex(f) == CHOOSE i \in 1..Len(Patterns) : Patterns[i] = f

\* the phrases of b whose number is extracted
Phrases(b) == {i \in 1..Len(b) : b[i].k = "dep" /\ b[i].fits}

\* how many extracted phrases come no later than phrase i: those of an earlier
\* pattern, and those of the same pattern that stand no further right
Rank(b, i) ==
    Cardinality({m \in Phrases(b) :
        \/ PatternIndex(b[m].form) < PatternIndex(b[i].form)
        \/ b[m].form = b[i].form /\ m <= i})

\* C10 as stated: the numbers come out in the order of the phrases in the text.
C10_LeftToRight ==
    pc = "extracted" => deps = ParseAll(SelectSeq(body, LAMBDA t : t.k = "dep"))

\* C10 as amended: the numbers come out pattern by pattern (depends, based,
\* stacked, builds, requires, follows), left to right within one pattern.
C10_PatternThenPosition ==
    pc = "extracted" =>
        /\ Len(deps) = Cardinality(Phrases(body))
        /\ \A i \in Phrases(body) : deps[Rank(body, i)] = body[i].n

C10_MixedOrderWitness ==
    /\ pc = "extracted"
    /\ body = <<Dep("based", 7), Dep("depends", 3)>>
    /\ deps = <<3, 7>>

====
